---- MODULE Spec2Model ----
(***************************************************************************)
(* Model of the Zetalytics connector, src/modules/sfp_zetalytics.py.       *)
(*                                                                         *)
(* The connector is a SpiderFoot plugin.  The host bus calls handleEvent   *)
(* with one event at a time; the handler runs its guards, records the      *)
(* dedup key, issues the HTTP queries of the branch for the event type     *)
(* and maps each response to emissions.  The stop flag (checkForStop) is   *)
(* owned by the host and may turn true between any two steps of a call,    *)
(* so a call is modelled step by step: one step per request, per call of   *)
(* the gate verify_emit_internet_name and per call of emit.                *)
(***************************************************************************)
EXTENDS Integers, Sequences, FiniteSets, TLC

VARIABLES
    apiKey,       \* opts["api_key"], fixed for the run
    verify,       \* opts["verify"], fixed for the run
    errorState,   \* self.errorState
    results,      \* self.results (the DedupCache): set of keys
    stop,         \* what checkForStop() returns
    pc,           \* "idle": no call in progress, "run": inside handleEvent
    event,        \* the event of the call in progress (or of the last call)
    plan,         \* endpoints the call in progress has still to query
    cur,          \* endpoint whose response is being mapped
    pending,      \* statements of the mapping still to execute
    evgen,        \* the local events_generated of the mapper in progress
    calls,        \* number of handleEvent calls made so far
    contentLeft,  \* non-empty bodies the remote may still return
    guard,        \* history: how this call left the guards of handleEvent
    queries,      \* history: requests this call issued and what they
                  \* returned, in order
    emitted,      \* history: events this call gave to notifyListeners
    gateLog,      \* history: this call's calls of verify_emit_internet_name
    raised,       \* history: an exception escaped from this call
    suppressed,   \* history: emit dropped an event of this call (stop set)
    queriedBy     \* history: (type, value, call) of every request of the run

\* The histories of a call are those of the call in progress, or of the last
\* call when none is; handleEvent starts them afresh.
vars == <<apiKey, verify, errorState, results, stop, pc, event, plan, cur,
          pending, evgen, calls, contentLeft, guard, queries, emitted,
          gateLog, raised, suppressed, queriedBy>>

(***************************************************************************)
(* Bounds of the model.                                                    *)
(***************************************************************************)
MaxCalls == 2
MaxContent == 1

(***************************************************************************)
(* JSON values, as json.loads returns them.  An object keeps its members   *)
(* in order, as a Python dict does.                                        *)
(***************************************************************************)
JNull == [t |-> "null", s |-> "", items |-> <<>>]
JStr(v) == [t |-> "str", s |-> v, items |-> <<>>]
JNum(v) == [t |-> "num", s |-> v, items |-> <<>>]
JArr(xs) == [t |-> "arr", s |-> "", items |-> xs]
JObj(ps) == [t |-> "obj", s |-> "", items |-> ps]
KV(k, v) == [k |-> k, v |-> v]

IsDict(j) == j.t = "obj"
IsList(j) == j.t = "arr"
IsStr(j) == j.t = "str"

\* Python truth value of a parsed JSON value.
Truthy(j) ==
    CASE j.t = "null" -> FALSE
      [] j.t = "str" -> j.s # ""
      [] j.t = "num" -> j.s # "0"
      [] OTHER -> Len(j.items) > 0

HasKey(j, k) == \E i \in 1..Len(j.items) : j.items[i].k = k

\* dict.get(k, d)
GetD(j, k, d) ==
    IF HasKey(j, k)
    THEN j.items[CHOOSE i \in 1..Len(j.items) : j.items[i].k = k].v
    ELSE d

\* dict.get(k)
Get(j, k) == GetD(j, k, JNull)

\* json.dumps
RECURSIVE Dumps(_)
RECURSIVE DumpsItems(_, _)
DumpsItems(xs, isObj) ==
    IF xs = <<>> THEN ""
    ELSE (IF isObj
          THEN "\"" \o xs[1].k \o "\": " \o Dumps(xs[1].v)
          ELSE Dumps(xs[1]))
         \o (IF Len(xs) > 1 THEN ", " ELSE "")
         \o DumpsItems(Tail(xs), isObj)
Dumps(j) ==
    CASE j.t = "null" -> "null"
      [] j.t = "str" -> "\"" \o j.s \o "\""
      [] j.t = "num" -> j.s
      [] j.t = "arr" -> "[" \o DumpsItems(j.items, FALSE) \o "]"
      [] j.t = "obj" -> "{" \o DumpsItems(j.items, TRUE) \o "}"

\* str() of a value inside an f-string (hostnames are strings or None).
Fmt(j) ==
    CASE j.t = "str" -> j.s
      [] j.t = "null" -> "None"
      [] j.t = "num" -> j.s

\* The key f"{eventName}:{eventData}" of the DedupCache.
Key(etype, data) == etype \o ":" \o data

(***************************************************************************)
(* The host's collaborators: target scope, TLD classification, and the     *)
(* events the host delivers (watchedEvents).                               *)
(***************************************************************************)
InScope == {"ex", "a.ex", "b.ex"}
RootDomains == {"ex", "aff.of"}

\* self.getTarget().matches(hostname): only a string can match.
Matches(h) == IsStr(h) /\ h.s \in InScope

\* self.sf.isDomain(hostname, tlds)
IsDomain(h) == IsStr(h) /\ h.s \in RootDomains

watchedEvents == {"INTERNET_NAME", "DOMAIN_NAME", "EMAILADDR", "IP_ADDRESS"}

producedEvents ==
    {"INTERNET_NAME", "AFFILIATE_DOMAIN_NAME", "INTERNET_NAME_UNRESOLVED",
     "IP_ADDRESS"}

Events ==
    { [etype |-> "INTERNET_NAME", data |-> "a.ex"],
      [etype |-> "DOMAIN_NAME", data |-> "ex"],
      [etype |-> "IP_ADDRESS", data |-> "1.1.1.1"],
      [etype |-> "EMAILADDR", data |-> "x@ex"] }

NoEvent == [etype |-> "", data |-> ""]

(***************************************************************************)
(* Statements of a response mapping still to be executed.                  *)
(*   emit    self.emit(etype, data, event); gen: the statement after it    *)
(*           sets events_generated                                         *)
(*   gate    self.verify_emit_internet_name(data, event)                   *)
(*   ifgen   if <mapper returned true>: self.emit("RAW_RIR_DATA", data)    *)
(*   raise   an exception is raised here                                   *)
(***************************************************************************)
EmitOp(etype, data) ==
    [op |-> "emit", etype |-> etype, data |-> data, gen |-> FALSE,
     via |-> "direct"]
EmitGenOp(etype, data) ==
    [op |-> "emit", etype |-> etype, data |-> data, gen |-> TRUE,
     via |-> "direct"]
GateEmitOp(etype, data) ==
    [op |-> "emit", etype |-> etype, data |-> data, gen |-> FALSE,
     via |-> "gate"]
GateOp(h) ==
    [op |-> "gate", etype |-> "", data |-> h, gen |-> FALSE, via |-> ""]
IfGenOp(data) ==
    [op |-> "ifgen", etype |-> "RAW_RIR_DATA", data |-> data, gen |-> FALSE,
     via |-> "direct"]
RaiseOp ==
    [op |-> "raise", etype |-> "", data |-> JNull, gen |-> FALSE, via |-> ""]

RawOp(body) == EmitOp("RAW_RIR_DATA", JStr(Dumps(body)))

RECURSIVE Flatten(_)
Flatten(seqs) ==
    IF seqs = <<>> THEN <<>> ELSE Head(seqs) \o Flatten(Tail(seqs))

\* A raise ends the handler: nothing after it is executed.
CutAtRaise(ops) ==
    IF \E i \in 1..Len(ops) : ops[i].op = "raise"
    THEN SubSeq(ops, 1, CHOOSE i \in 1..Len(ops) :
                           /\ ops[i].op = "raise"
                           /\ \A j \in 1..(i - 1) : ops[j].op # "raise")
    ELSE ops

\* "for r in v" over a parsed JSON value: a list yields its items, an object
\* its keys, a string its characters (kept as one string here: every loop
\* body below starts with r.get, which a string does not have); None and
\* numbers are not iterable.
Iterable(v) == v.t \in {"arr", "obj", "str"}
Elems(v) ==
    CASE v.t = "arr" -> v.items
      [] v.t = "obj" -> [i \in 1..Len(v.items) |-> JStr(v.items[i].k)]
      [] v.t = "str" -> IF v.s = "" THEN <<>> ELSE <<JStr(v.s)>>

(***************************************************************************)
(* The response mappers.  Each gives the statements the code executes for  *)
(* one response, in order.                                                 *)
(***************************************************************************)

\* generate_subdomains_events: the loop body for one results entry.
SubdomainsEntry(r) ==
    IF ~IsDict(r) THEN <<RaiseOp>>
    ELSE IF ~IsStr(Get(r, "qname")) THEN <<>>
    ELSE <<GateOp(Get(r, "qname"))>>

generate_subdomains_events(data) ==
    IF ~IsDict(data) THEN <<>>
    ELSE LET rs == GetD(data, "results", JArr(<<>>))
         IN  IF ~IsList(rs) THEN <<>>
             ELSE Flatten([i \in 1..Len(Elems(rs)) |->
                             SubdomainsEntry(Elems(rs)[i])])

\* generate_hostname_events, first loop: does adding the entry's qname to the
\* set raise?  r.get needs a dict, set.add a hashable value.  The test
\* isinstance("qname", str) is on the literal and always true.
HostnameAddRaises(r) ==
    \/ ~IsDict(r)
    \/ Get(r, "qname").t \in {"arr", "obj"}

\* The set "hostnames" once the first loop is over.
HostnameSet(rs) == { Get(rs.items[i], "qname") : i \in 1..Len(rs.items) }

\* The orders in which "for hostname in hostnames" may visit a set.
Orders(S) ==
    { o \in [1..Cardinality(S) -> S] :
        \A i, j \in 1..Cardinality(S) : i # j => o[i] # o[j] }

\* Mutant of generate_hostname_events: the qnames are kept in a list, one
\* per entry, instead of a set.
generate_hostname_events_list(data) ==
    IF ~IsDict(data) THEN {<<>>}
    ELSE LET rs == Get(data, "results")
         IN  IF ~IsList(rs) THEN {<<>>}
             ELSE IF \E i \in 1..Len(rs.items) : HostnameAddRaises(rs.items[i])
             THEN {<<RaiseOp>>}
             ELSE { [i \in 1..Len(rs.items) |->
                       GateOp(Get(rs.items[i], "qname"))] }

\* generate_hostname_events: one statement list per iteration order.
generate_hostname_events(data) ==
    IF ~IsDict(data) THEN {<<>>}
    ELSE LET rs == Get(data, "results")
         IN  IF ~IsList(rs) THEN {<<>>}
             ELSE IF \E i \in 1..Len(rs.items) : HostnameAddRaises(rs.items[i])
             THEN {<<RaiseOp>>}
             ELSE { [i \in 1..Len(o) |-> GateOp(o[i])] :
                      o \in Orders(HostnameSet(rs)) }

\* generate_email_events and generate_email_domain_events: the loop body.
EmailEntry(r) ==
    IF ~IsDict(r) THEN <<RaiseOp>>
    ELSE IF IsStr(Get(r, "d"))
         THEN <<EmitGenOp("AFFILIATE_DOMAIN_NAME", Get(r, "d"))>>
         ELSE <<>>

generate_email_events(data) ==
    IF ~IsDict(data) THEN <<>>
    ELSE LET rs == Get(data, "results")
         IN  IF ~IsList(rs) THEN <<>>
             ELSE Flatten([i \in 1..Len(Elems(rs)) |->
                             EmailEntry(Elems(rs)[i])])

generate_email_domain_events(data) ==
    IF ~IsDict(data) THEN <<>>
    ELSE LET rs == Get(data, "results")
         IN  IF ~IsList(rs) THEN <<>>
             ELSE Flatten([i \in 1..Len(Elems(rs)) |->
                             EmailEntry(Elems(rs)[i])])

\* handleEvent, DOMAIN_NAME: "sd and isinstance(sd.get("results"), list)";
\* sd.get raises on a truthy value that is no dict.
SdRecord(rec) ==
    IF ~IsDict(rec) THEN <<RaiseOp>>
    ELSE IF Get(rec, "rrtype") \in {JStr("a"), JStr("AAAA")}
            /\ IsStr(Get(rec, "value"))
         THEN <<EmitOp("IP_ADDRESS", Get(rec, "value"))>>
         ELSE <<>>

SdEntry(entry) ==
    IF ~IsDict(entry) \/ ~HasKey(entry, "qname") THEN <<RaiseOp>>
    ELSE LET recs == GetD(entry, "records", JArr(<<>>))
         IN  <<EmitOp("AFFILIATE_DOMAIN_NAME", Get(entry, "qname"))>>
             \o (IF ~Iterable(recs) THEN <<RaiseOp>>
                 ELSE Flatten([i \in 1..Len(Elems(recs)) |->
                                 SdRecord(Elems(recs)[i])]))

SubdomainsInline(sd) ==
    IF ~Truthy(sd) THEN <<>>
    ELSE IF ~IsDict(sd) THEN <<RaiseOp>>
    ELSE IF ~IsList(Get(sd, "results")) THEN <<>>
    ELSE Flatten([i \in 1..Len(Elems(Get(sd, "results"))) |->
                    SdEntry(Elems(Get(sd, "results"))[i])])
         \o <<RawOp(sd)>>

\* handleEvent, DOMAIN_NAME, /ns2domain and IP_ADDRESS, /ip: affiliates by
\* field, excluding the event's own value.
AffiliateEntry(r, field, eventData) ==
    IF ~IsDict(r) THEN <<RaiseOp>>
    ELSE IF IsStr(Get(r, field)) /\ Get(r, field).s # eventData
         THEN <<EmitOp("AFFILIATE_DOMAIN_NAME", Get(r, field))>>
         ELSE <<>>

Ns2Domain(ns, eventData) ==
    IF ~Truthy(ns) THEN <<>>
    ELSE IF ~IsDict(ns) THEN <<RaiseOp>>
    ELSE IF ~IsList(Get(ns, "results")) THEN <<>>
    ELSE Flatten([i \in 1..Len(Elems(Get(ns, "results"))) |->
                    AffiliateEntry(Elems(Get(ns, "results"))[i], "domain",
                                   eventData)])
         \o <<RawOp(ns)>>

IpQuery(ip, eventData) ==
    IF ~Truthy(ip) THEN <<>>
    ELSE IF ~IsDict(ip) THEN <<RaiseOp>>
    ELSE (IF IsList(Get(ip, "results"))
          THEN Flatten([i \in 1..Len(Elems(Get(ip, "results"))) |->
                          AffiliateEntry(Elems(Get(ip, "results"))[i],
                                         "qname", eventData)])
          ELSE <<>>)
         \o <<RawOp(ip)>>

\* handleEvent: "if records: self.emit("RAW_RIR_DATA", json.dumps(records))"
RawOnly(body) == IF Truthy(body) THEN <<RawOp(body)>> ELSE <<>>

\* handleEvent, DOMAIN_NAME, /domain2whois
WhoisEntry(r) ==
    IF ~IsDict(r) THEN <<RaiseOp>>
    ELSE LET resp == GetD(r, "response", JObj(<<>>))
         IN  IF ~IsDict(resp) THEN <<RaiseOp>>
             ELSE LET x == GetD(resp, "x", JObj(<<>>))
                  IN  IF ~IsDict(x) THEN <<RaiseOp>>
                      ELSE IF Truthy(Get(x, "owner"))
                           THEN <<EmitOp("EMAILADDR", Get(x, "owner"))>>
                           ELSE <<>>

Whois(w) ==
    IF ~Truthy(w) THEN <<>>
    ELSE <<RawOp(w)>>
         \o (IF ~IsDict(w) THEN <<RaiseOp>>
             ELSE IF ~Iterable(GetD(w, "results", JArr(<<>>)))
             THEN <<RaiseOp>>
             ELSE Flatten([i \in 1..Len(Elems(GetD(w, "results", JArr(<<>>))))
                             |-> WhoisEntry(
                                   Elems(GetD(w, "results", JArr(<<>>)))[i])]))

OpaquePaths ==
    {"/domain2ip", "/domain2aaaa", "/domain2mx", "/domain2cname",
     "/domain2d8s", "/domain2nsglue", "/ip2nsglue", "/ip2pwhois"}

\* The statement lists handleEvent may execute for the response "body" of
\* endpoint "path" (several only where a set's iteration order decides).
Mapping(path, body, eventData) ==
    LET lists ==
          CASE path = "/hostname" ->
                 { m \o <<IfGenOp(JStr(Dumps(body)))>> :
                     m \in generate_hostname_events(body) }
            [] path = "/subdomains" ->
                 { SubdomainsInline(body) \o generate_subdomains_events(body)
                     \o <<IfGenOp(JStr(Dumps(body)))>> }
            [] path = "/email_domain" ->
                 { generate_email_domain_events(body)
                     \o <<IfGenOp(JStr(Dumps(body)))>> }
            [] path = "/email_address" ->
                 { generate_email_events(body)
                     \o <<IfGenOp(JStr(Dumps(body)))>> }
            [] path = "/ns2domain" -> { Ns2Domain(body, eventData) }
            [] path = "/domain2whois" -> { Whois(body) }
            [] path = "/ip" -> { IpQuery(body, eventData) }
            [] path \in OpaquePaths -> { RawOnly(body) }
    IN  { CutAtRaise(l) : l \in lists }

\* The endpoints handleEvent queries for an event type, in order.
Plan(etype) ==
    CASE etype = "INTERNET_NAME" -> <<"/hostname">>
      [] etype = "DOMAIN_NAME" ->
            <<"/subdomains", "/email_domain", "/ns2domain", "/domain2ip",
              "/domain2aaaa", "/domain2mx", "/domain2cname", "/domain2whois",
              "/domain2d8s", "/domain2nsglue">>
      [] etype = "IP_ADDRESS" -> <<"/ip2nsglue", "/ip2pwhois", "/ip">>
      [] etype = "EMAILADDR" -> <<"/email_address">>
      [] OTHER -> <<>>

(***************************************************************************)
(* What the remote may answer.  fetchUrl gives no content, content that is *)
(* not JSON, or content that json.loads parses to one of these bodies.     *)
(***************************************************************************)
Q(h) == JObj(<<KV("qname", JStr(h))>>)
WithResults(rs) == JObj(<<KV("results", rs)>>)
NotAnObject == JArr(<<JNum("1")>>)
NoResults == JObj(<<KV("total", JNum("0"))>>)
ResultsNoList == WithResults(JStr("none"))
ARecord == JObj(<<KV("rrtype", JStr("a")), KV("value", JStr("1.1.1.1"))>>)

HostnameBodies ==
    { WithResults(JArr(<<Q("b.ex"), Q("b.ex")>>)),
      WithResults(JArr(<<Q("a.ex"), Q("out.of")>>)),
      WithResults(JArr(<<JObj(<<>>)>>)),
      WithResults(JArr(<<JNum("1")>>)),
      ResultsNoList,
      NotAnObject }

SubdomainsBodies ==
    { WithResults(JArr(<<
          JObj(<<KV("qname", JStr("b.ex")), KV("records", JArr(<<ARecord>>))>>),
          Q("b.ex")>>)),
      WithResults(JArr(<<Q("ex"), Q("a.ex"), Q("out.of")>>)),
      WithResults(JArr(<<Q("a.ex"), JObj(<<>>)>>)),
      ResultsNoList,
      NoResults,
      NotAnObject }

EmailBodies ==
    { WithResults(JArr(<<JObj(<<KV("d", JStr("aff.of"))>>), JObj(<<>>)>>)),
      NotAnObject }

Ns2DomainBodies ==
    { WithResults(JArr(<<JObj(<<KV("domain", JStr("aff.of"))>>),
                         JObj(<<KV("domain", JStr("ex"))>>)>>)),
      ResultsNoList,
      NotAnObject }

OpaqueBodies == { WithResults(JArr(<<>>)), NotAnObject }

WhoisBodies ==
    { WithResults(JArr(<<
          JObj(<<KV("response",
                    JObj(<<KV("x", JObj(<<KV("owner", JStr("o@ex"))>>))>>))>>),
          JObj(<<>>)>>)),
      WithResults(JArr(<<
          JNum("1"),
          JObj(<<KV("response",
                    JObj(<<KV("x", JObj(<<KV("owner", JStr("p@ex"))>>))>>))>>)
          >>)),
      NoResults,
      NotAnObject }

IpBodies ==
    { WithResults(JArr(<<Q("aff.of"), Q("1.1.1.1")>>)),
      NoResults,
      NotAnObject }

Bodies(path) ==
    CASE path = "/hostname" -> HostnameBodies
      [] path = "/subdomains" -> SubdomainsBodies
      [] path \in {"/email_domain", "/email_address"} -> EmailBodies
      [] path = "/ns2domain" -> Ns2DomainBodies
      [] path = "/domain2whois" -> WhoisBodies
      [] path = "/ip" -> IpBodies
      [] path \in OpaquePaths -> OpaqueBodies

FetchResults(path) ==
    { [content |-> "none", body |-> JNull],
      [content |-> "invalid", body |-> JNull] }
    \cup { [content |-> "json", body |-> b] : b \in Bodies(path) \cup {JNull} }

\* request: None without content, None when json.loads fails, else the
\* parsed value.
request(res) ==
    IF res.content = "none" THEN JNull
    ELSE IF res.content = "invalid" THEN JNull
    ELSE res.body

(***************************************************************************)
(* emit and the gate.                                                      *)
(***************************************************************************)

\* Mutant of emit: the stop flag is not polled.
emit_unpolled(stopped, log, evt) == Append(log, evt)

\* emit: nothing reaches the listeners once checkForStop() is true.
emit(stopped, log, evt) == IF stopped THEN log ELSE Append(log, evt)

\* What resolveHost and resolveHost6 may answer in one call of the gate:
\* "unasked" where the resolver is never called, that is when the gate
\* returns at the DedupCache or scope test, when opts["verify"] is off, and
\* for resolveHost6 when the "and" chain stops at resolveHost.
Resolutions(hostname, cache, vfy) ==
    IF \/ Key("INTERNET_NAME", Fmt(hostname)) \in cache
       \/ ~Matches(hostname)
       \/ ~vfy
    THEN { [r4 |-> "unasked", r6 |-> "unasked"] }
    ELSE { [r4 |-> "yes", r6 |-> "unasked"], [r4 |-> "no", r6 |-> "yes"],
           [r4 |-> "no", r6 |-> "no"] }

\* Mutant of verify_emit_internet_name: the scope test is missing.
verify_emit_unscoped(hostname, cache, vfy, r) ==
    IF Key("INTERNET_NAME", Fmt(hostname)) \in cache
    THEN [ret |-> FALSE, emits |-> <<>>]
    ELSE IF vfy /\ r.r4 = "no" /\ r.r6 = "no"
    THEN [ret |-> TRUE,
          emits |-> <<GateEmitOp("INTERNET_NAME_UNRESOLVED", hostname)>>]
    ELSE [ret |-> TRUE,
          emits |-> <<GateEmitOp("INTERNET_NAME", hostname)>>
                    \o (IF IsDomain(hostname)
                        THEN <<GateEmitOp("DOMAIN_NAME", hostname)>>
                        ELSE <<>>)]

\* Mutant of verify_emit_internet_name: only resolveHost is consulted.
verify_emit_v4only(hostname, cache, vfy, r) ==
    IF Key("INTERNET_NAME", Fmt(hostname)) \in cache
    THEN [ret |-> FALSE, emits |-> <<>>]
    ELSE IF ~Matches(hostname)
    THEN [ret |-> FALSE, emits |-> <<>>]
    ELSE IF vfy /\ r.r4 = "no"
    THEN [ret |-> TRUE,
          emits |-> <<GateEmitOp("INTERNET_NAME_UNRESOLVED", hostname)>>]
    ELSE [ret |-> TRUE,
          emits |-> <<GateEmitOp("INTERNET_NAME", hostname)>>
                    \o (IF IsDomain(hostname)
                        THEN <<GateEmitOp("DOMAIN_NAME", hostname)>>
                        ELSE <<>>)]

\* Mutant of verify_emit_internet_name: the DedupCache is not consulted.
verify_emit_uncached(hostname, cache, vfy, r) ==
    IF ~Matches(hostname)
    THEN [ret |-> FALSE, emits |-> <<>>]
    ELSE IF vfy /\ r.r4 = "no" /\ r.r6 = "no"
    THEN [ret |-> TRUE,
          emits |-> <<GateEmitOp("INTERNET_NAME_UNRESOLVED", hostname)>>]
    ELSE [ret |-> TRUE,
          emits |-> <<GateEmitOp("INTERNET_NAME", hostname)>>
                    \o (IF IsDomain(hostname)
                        THEN <<GateEmitOp("DOMAIN_NAME", hostname)>>
                        ELSE <<>>)]

\* verify_emit_internet_name: [ret, emits] for a hostname, given the cache,
\* opts["verify"] and what resolveHost and resolveHost6 answer.
verify_emit_internet_name(hostname, cache, vfy, r) ==
    IF Key("INTERNET_NAME", Fmt(hostname)) \in cache
    THEN [ret |-> FALSE, emits |-> <<>>]
    ELSE IF ~Matches(hostname)
    THEN [ret |-> FALSE, emits |-> <<>>]
    ELSE IF vfy /\ r.r4 = "no" /\ r.r6 = "no"
    THEN [ret |-> TRUE,
          emits |-> <<GateEmitOp("INTERNET_NAME_UNRESOLVED", hostname)>>]
    ELSE [ret |-> TRUE,
          emits |-> <<GateEmitOp("INTERNET_NAME", hostname)>>
                    \o (IF IsDomain(hostname)
                        THEN <<GateEmitOp("DOMAIN_NAME", hostname)>>
                        ELSE <<>>)]

(***************************************************************************)
(* The state machine.                                                      *)
(***************************************************************************)
Init ==
    /\ apiKey \in {"", "key"}
    /\ verify \in BOOLEAN
    /\ errorState = FALSE
    /\ results = {}
    /\ stop = FALSE
    /\ pc = "idle"
    /\ event = NoEvent
    /\ plan = <<>>
    /\ cur = ""
    /\ pending = <<>>
    /\ evgen = FALSE
    /\ calls = 0
    /\ contentLeft = MaxContent
    /\ guard = ""
    /\ queries = <<>>
    /\ emitted = <<>>
    /\ gateLog = <<>>
    /\ raised = FALSE
    /\ suppressed = FALSE
    /\ queriedBy = {}

\* Mutant of Guard: the DedupCache is not consulted.
GuardNoDedup(e) ==
    IF errorState THEN "error"
    ELSE IF stop THEN "stopped"
    ELSE IF apiKey = "" THEN "nokey"
    ELSE "pass"

\* Mutant of Guard: the API key is not tested.
GuardNoKeyTest(e) ==
    IF errorState THEN "error"
    ELSE IF stop THEN "stopped"
    ELSE IF Key(e.etype, e.data) \in results THEN "seen"
    ELSE "pass"

\* Mutant of Guard: a key that is already in the DedupCache is treated like
\* a missing API key.
GuardSeenIsError(e) ==
    IF errorState THEN "error"
    ELSE IF stop THEN "stopped"
    ELSE IF apiKey = "" THEN "nokey"
    ELSE IF Key(e.etype, e.data) \in results THEN "nokey"
    ELSE "pass"

\* handleEvent, the guards: which way the call leaves them.
Guard(e) ==
    IF errorState THEN "error"
    ELSE IF stop THEN "stopped"
    ELSE IF apiKey = "" THEN "nokey"
    ELSE IF Key(e.etype, e.data) \in results THEN "seen"
    ELSE "pass"

\* Mutant of HandleEvent: the key is recorded before the stop-flag, API-key
\* and DedupCache tests instead of after them.
HandleEventRecordsFirst(e) ==
    /\ pc = "idle"
    /\ calls < MaxCalls
    /\ calls' = calls + 1
    /\ event' = e
    /\ guard' = Guard(e)
    /\ errorState' = (errorState \/ Guard(e) = "nokey")
    /\ results' = IF Guard(e) # "error"
                  THEN results \cup {Key(e.etype, e.data)}
                  ELSE results
    /\ pc' = IF Guard(e) = "pass" THEN "run" ELSE "idle"
    /\ plan' = IF Guard(e) = "pass" THEN Plan(e.etype) ELSE <<>>
    /\ cur' = ""
    /\ pending' = <<>>
    /\ evgen' = FALSE
    /\ queries' = <<>>
    /\ emitted' = <<>>
    /\ gateLog' = <<>>
    /\ raised' = FALSE
    /\ suppressed' = FALSE
    /\ UNCHANGED <<apiKey, verify, stop, contentLeft, queriedBy>>

\* handleEvent up to the dispatch on the event type.
HandleEvent(e) ==
    /\ pc = "idle"
    /\ calls < MaxCalls
    /\ calls' = calls + 1
    /\ event' = e
    /\ guard' = Guard(e)
    /\ errorState' = (errorState \/ Guard(e) = "nokey")
    /\ results' = IF Guard(e) = "pass"
                  THEN results \cup {Key(e.etype, e.data)}
                  ELSE results
    /\ pc' = IF Guard(e) = "pass" THEN "run" ELSE "idle"
    /\ plan' = IF Guard(e) = "pass" THEN Plan(e.etype) ELSE <<>>
    /\ cur' = ""
    /\ pending' = <<>>
    /\ evgen' = FALSE
    /\ queries' = <<>>
    /\ emitted' = <<>>
    /\ gateLog' = <<>>
    /\ raised' = FALSE
    /\ suppressed' = FALSE
    /\ UNCHANGED <<apiKey, verify, stop, contentLeft, queriedBy>>

\* One query_* call and the choice of the statements that map its response.
Request ==
    /\ pc = "run"
    /\ pending = <<>>
    /\ plan # <<>>
    /\ \E res \in FetchResults(Head(plan)) :
         /\ Truthy(request(res)) => contentLeft > 0
         /\ contentLeft' = IF Truthy(request(res))
                           THEN contentLeft - 1 ELSE contentLeft
         /\ \E ops \in Mapping(Head(plan), request(res), event.data) :
              pending' = ops
         /\ queries' = Append(queries, [path |-> Head(plan),
                                        q |-> event.data,
                                        resp |-> request(res)])
    /\ queriedBy' = queriedBy \cup
                      {[etype |-> event.etype, data |-> event.data,
                        call |-> calls]}
    /\ cur' = Head(plan)
    /\ plan' = Tail(plan)
    /\ evgen' = FALSE
    /\ UNCHANGED <<apiKey, verify, errorState, results, stop, pc, event,
                   calls, guard, emitted, gateLog, raised, suppressed>>

Emitted(op) ==
    [etype |-> op.etype, data |-> op.data, via |-> op.via, path |-> cur]

\* One call of emit.
Emit ==
    /\ pc = "run"
    /\ pending # <<>>
    /\ Head(pending).op = "emit"
    /\ emitted' = emit(stop, emitted, Emitted(Head(pending)))
    /\ suppressed' = (suppressed \/ stop)
    /\ evgen' = (evgen \/ Head(pending).gen)
    /\ pending' = Tail(pending)
    /\ UNCHANGED <<apiKey, verify, errorState, results, stop, pc, event, plan,
                   cur, calls, contentLeft, guard, queries, gateLog, raised,
                   queriedBy>>

\* One call of verify_emit_internet_name, up to its first emit.
Gate ==
    /\ pc = "run"
    /\ pending # <<>>
    /\ Head(pending).op = "gate"
    /\ \E r \in Resolutions(Head(pending).data, results, verify) :
         LET g == verify_emit_internet_name(Head(pending).data, results,
                                            verify, r)
         IN  /\ pending' = g.emits \o Tail(pending)
             /\ evgen' = (evgen \/ g.ret)
             /\ gateLog' = Append(gateLog,
                                  [h |-> Head(pending).data, ret |-> g.ret,
                                   emits |-> g.emits, path |-> cur,
                                   r4 |-> r.r4, r6 |-> r.r6])
    /\ UNCHANGED <<apiKey, verify, errorState, results, stop, pc, event, plan,
                   cur, calls, contentLeft, guard, queries, emitted, raised,
                   suppressed, queriedBy>>

\* "if self.generate_..._events(data, event): self.emit("RAW_RIR_DATA", ...)"
IfGenerated ==
    /\ pc = "run"
    /\ pending # <<>>
    /\ Head(pending).op = "ifgen"
    /\ pending' = IF evgen
                  THEN <<EmitOp(Head(pending).etype, Head(pending).data)>>
                       \o Tail(pending)
                  ELSE Tail(pending)
    /\ UNCHANGED <<apiKey, verify, errorState, results, stop, pc, event, plan,
                   cur, evgen, calls, contentLeft, guard, queries, emitted,
                   gateLog, raised, suppressed, queriedBy>>

\* An exception leaves handleEvent.
Raise ==
    /\ pc = "run"
    /\ pending # <<>>
    /\ Head(pending).op = "raise"
    /\ pc' = "idle"
    /\ pending' = <<>>
    /\ plan' = <<>>
    /\ raised' = TRUE
    /\ UNCHANGED <<apiKey, verify, errorState, results, stop, event, cur,
                   evgen, calls, contentLeft, guard, queries, emitted,
                   gateLog, suppressed, queriedBy>>

\* handleEvent returns after its last query.
Return ==
    /\ pc = "run"
    /\ pending = <<>>
    /\ plan = <<>>
    /\ pc' = "idle"
    /\ UNCHANGED <<apiKey, verify, errorState, results, stop, event, plan,
                   cur, pending, evgen, calls, contentLeft, guard, queries,
                   emitted, gateLog, raised, suppressed, queriedBy>>

\* The host requests the scan to stop.
SetStop ==
    /\ ~stop
    /\ stop' = TRUE
    /\ UNCHANGED <<apiKey, verify, errorState, results, pc, event, plan, cur,
                   pending, evgen, calls, contentLeft, guard, queries,
                   emitted, gateLog, raised, suppressed, queriedBy>>

Next ==
    \/ \E e \in Events : HandleEvent(e)
    \/ Request
    \/ Emit
    \/ Gate
    \/ IfGenerated
    \/ Raise
    \/ Return
    \/ SetStop

Spec == Init /\ [][Next]_vars

(***************************************************************************)
(* Properties.                                                             *)
(***************************************************************************)
InetFamily == {"INTERNET_NAME", "INTERNET_NAME_UNRESOLVED"}

\* C1: with an API key set, the requests of the run for one (eventType,
\* eventData) pair all belong to one handleEvent call, that pair's key is in
\* the DedupCache from then on, and a call that finds its key in the cache
\* issues no request and emits no event.
C1_QueriedAtMostOnce ==
    apiKey # "" =>
      /\ \A x, y \in queriedBy :
           (x.etype = y.etype /\ x.data = y.data) => x.call = y.call
      /\ \A x \in queriedBy : Key(x.etype, x.data) \in results
      /\ guard = "seen" =>
           /\ Key(event.etype, event.data) \in results
           /\ queries = <<>>
           /\ emitted = <<>>
           /\ pc = "idle"

\* A second call for a pair an earlier call queried has been skipped.
C1_Witness ==
    /\ apiKey # ""
    /\ guard = "seen"
    /\ \E x \in queriedBy :
         x.etype = event.etype /\ x.data = event.data /\ x.call < calls

\* C2 (as claimed): no handleEvent call emits two INTERNET_NAME or
\* INTERNET_NAME_UNRESOLVED events for the same hostname, and two calls of
\* the gate with the same hostname do not both emit.
C2_HostnameEmittedOnce ==
    /\ \A i, j \in 1..Len(emitted) :
         (/\ i # j
          /\ emitted[i].etype \in InetFamily
          /\ emitted[j].etype \in InetFamily)
         => emitted[i].data # emitted[j].data
    /\ \A i, j \in 1..Len(gateLog) :
         (i # j /\ gateLog[i].h = gateLog[j].h)
         => (gateLog[i].emits = <<>> \/ gateLog[j].emits = <<>>)

\* C3: a call of the gate with a hostname outside the target scope returns
\* false and emits nothing, and no event of the gate carries such a
\* hostname, whatever opts["verify"] and the resolvers say.
C3_OutOfScopeSilent ==
    /\ \A i \in 1..Len(gateLog) :
         ~Matches(gateLog[i].h) =>
           (~gateLog[i].ret /\ gateLog[i].emits = <<>>)
    /\ \A i \in 1..Len(emitted) :
         emitted[i].via = "gate" => Matches(emitted[i].data)

\* The gate has been called with a hostname outside the scope that is not in
\* the DedupCache, so the scope test decided.
C3_Witness ==
    \E i \in 1..Len(gateLog) :
      /\ IsStr(gateLog[i].h)
      /\ ~Matches(gateLog[i].h)
      /\ Key("INTERNET_NAME", gateLog[i].h.s) \notin results

\* C4 (as claimed): with an empty API key the connector is in its error
\* state as soon as one event has been handled.
C4_FirstEventSetsError ==
    (apiKey = "" /\ calls >= 1) => errorState

\* C4 (amended): with an empty API key no call issues a request or emits an
\* event, a call that reaches the key test sets the error state (the first
\* one handled while the stop flag is clear does), every call after that
\* leaves at the error-state guard, and the error state is never left.
C4_NoKeyTerminal ==
    /\ [](apiKey = "" =>
            /\ queries = <<>> /\ emitted = <<>> /\ queriedBy = {}
            /\ results = {}
            /\ pc = "idle"
            /\ guard \in {"", "stopped", "nokey", "error"}
            /\ guard \in {"nokey", "error"} => errorState
            /\ (calls >= 1 /\ ~stop) => errorState)
    /\ [][errorState => errorState']_vars
    /\ [][(apiKey = "" /\ errorState /\ calls' # calls)
            => guard' = "error"]_vars

\* Two events have been handled with an empty API key: the first set the
\* error state, the second left at the error-state guard.
C4_Witness ==
    apiKey = "" /\ errorState /\ calls = 2 /\ guard = "error"

\* C5: once the stop flag is set no event is given to the listeners, neither
\* by a call made afterwards nor by the rest of a call in progress.
C5_NoEmissionAfterStop ==
    [][stop => (emitted' = emitted \/ emitted' = <<>>)]_vars

\* A call that had emitted events went on after the flag was set and emit
\* dropped an event of it.
C5_Witness ==
    stop /\ suppressed /\ emitted # <<>>

\* C6 (as claimed): once the stop flag is set no request is issued, neither
\* by a call made afterwards nor by the rest of a call in progress.
C6_NoRequestAfterStop ==
    [][stop => (queries' = queries \/ queries' = <<>>)]_vars

\* C7 (as claimed): no exception escapes handleEvent, whatever the event
\* and the shape of the responses.
C7_NoExceptionEscapes == ~raised

\* A response with nothing to map: null, no object, or an object whose
\* "results" member is absent or no list.
Unmappable(body) ==
    \/ body = JNull
    \/ ~IsDict(body)
    \/ ~HasKey(body, "results")
    \/ ~IsList(Get(body, "results"))

\* C8 (as claimed): a request whose response has nothing to map leads to no
\* event (RAW_RIR_DATA included) and to no exception.
C8_UnmappableIsSilent ==
    \A i \in 1..Len(queries) :
      Unmappable(queries[i].resp) =>
        /\ \A j \in 1..Len(emitted) : emitted[j].path # queries[i].path
        /\ ~(raised /\ i = Len(queries))

\* C9 (as claimed): only strings are passed to the gate, and a results entry
\* without a string in its field raises nothing.
C9_OnlyStringsReachGate ==
    /\ \A i \in 1..Len(gateLog) : IsStr(gateLog[i].h)
    /\ (raised /\ queries # <<>> /\ ~Unmappable(queries[Len(queries)].resp))
       => \E k \in 1..Len(Get(queries[Len(queries)].resp, "results").items) :
            ~IsDict(Get(queries[Len(queries)].resp, "results").items[k])

\* The values of the "qname" members of a response's results entries.
Qnames(body) ==
    IF Unmappable(body) THEN {}
    ELSE { Get(Get(body, "results").items[k], "qname") :
             k \in { n \in 1..Len(Get(body, "results").items) :
                       IsDict(Get(body, "results").items[n]) } }

\* C10 (as claimed): an event whose value is a qname of a /subdomains or
\* /hostname response was emitted by the gate, for a hostname in scope whose
\* key is not in the DedupCache.
C10_QnamesOnlyThroughGate ==
    \A i \in 1..Len(queries) :
      queries[i].path \in {"/subdomains", "/hostname"} =>
        \A j \in 1..Len(emitted) :
          (/\ emitted[j].path = queries[i].path
           /\ emitted[j].etype # "RAW_RIR_DATA"
           /\ emitted[j].data \in Qnames(queries[i].resp))
          => /\ emitted[j].via = "gate"
             /\ Matches(emitted[j].data)
             /\ Key("INTERNET_NAME", Fmt(emitted[j].data)) \notin results

\* The types of the events a list of emit statements carries.
TypesOf(ops) == {ops[k].etype : k \in 1..Len(ops)}

\* The gate reached an in-scope hostname that is not in the DedupCache.
Admitted(g) == Matches(g.h) /\ Key("INTERNET_NAME", Fmt(g.h)) \notin results

\* Neither resolveHost nor resolveHost6 found an address.
Unresolved(g) == g.r4 = "no" /\ g.r6 = "no"

\* C11: with verification enabled, an in-scope, unseen hostname that resolves
\* to neither an IPv4 nor an IPv6 address gets exactly one
\* INTERNET_NAME_UNRESOLVED emit from the gate and neither INTERNET_NAME nor
\* DOMAIN_NAME; when a resolution succeeds or verification is disabled the
\* gate emits INTERNET_NAME and never INTERNET_NAME_UNRESOLVED.  Whatever
\* the listeners receive through the gate agrees with a call of the gate.
C11_UnresolvedOrName ==
    /\ \A i \in 1..Len(gateLog) :
         LET g == gateLog[i]
         IN  Admitted(g) =>
               IF verify /\ Unresolved(g)
               THEN /\ Len(g.emits) = 1
                    /\ g.emits[1].etype = "INTERNET_NAME_UNRESOLVED"
                    /\ g.emits[1].data = g.h
               ELSE /\ g.emits # <<>>
                    /\ g.emits[1].etype = "INTERNET_NAME"
                    /\ g.emits[1].data = g.h
                    /\ "INTERNET_NAME_UNRESOLVED" \notin TypesOf(g.emits)
    /\ \A k \in 1..Len(emitted) :
         emitted[k].via = "gate" =>
           \E i \in 1..Len(gateLog) :
             /\ gateLog[i].h = emitted[k].data
             /\ Admitted(gateLog[i])
             /\ (emitted[k].etype = "INTERNET_NAME_UNRESOLVED")
                  = (verify /\ Unresolved(gateLog[i]))

\* C11 witness: in one call the gate found one hostname unresolvable and
\* another resolvable, and the listeners received both events.
C11_Witness ==
    /\ verify
    /\ \E i, j \in 1..Len(gateLog) :
         /\ Admitted(gateLog[i]) /\ Unresolved(gateLog[i])
         /\ Admitted(gateLog[j]) /\ ~Unresolved(gateLog[j])
    /\ \E k, l \in 1..Len(emitted) :
         /\ emitted[k].via = "gate"
         /\ emitted[k].etype = "INTERNET_NAME_UNRESOLVED"
         /\ emitted[l].via = "gate"
         /\ emitted[l].etype = "INTERNET_NAME"

\* The response carries the qname h in two entries of its results list.
RepeatsQname(body, h) ==
    /\ IsDict(body)
    /\ IsList(Get(body, "results"))
    /\ \E i, j \in 1..Len(Get(body, "results").items) :
         /\ i # j
         /\ IsDict(Get(body, "results").items[i])
         /\ IsDict(Get(body, "results").items[j])
         /\ Get(Get(body, "results").items[i], "qname") = JStr(h)
         /\ Get(Get(body, "results").items[j], "qname") = JStr(h)

\* C12: while one INTERNET_NAME event is handled, the gate is called at most
\* once per qname of the /hostname response, so the listeners receive at most
\* one INTERNET_NAME or INTERNET_NAME_UNRESOLVED event for a qname, however
\* often the results list repeats it.
C12_RepeatedQnameOnce ==
    event.etype = "INTERNET_NAME" =>
      /\ \A i, j \in 1..Len(gateLog) :
           gateLog[i].h = gateLog[j].h => i = j
      /\ \A i, j \in 1..Len(emitted) :
           (/\ emitted[i].etype \in InetFamily
            /\ emitted[j].etype \in InetFamily
            /\ emitted[i].data = emitted[j].data) => i = j

\* C12 witness: the /hostname response repeated a qname, the mapping of the
\* response is over, and the listeners received an event for that qname.
C12_Witness ==
    /\ event.etype = "INTERNET_NAME"
    /\ pc = "idle"
    /\ ~raised
    /\ queries # <<>>
    /\ \E k \in 1..Len(emitted) :
         /\ emitted[k].etype \in InetFamily
         /\ IsStr(emitted[k].data)
         /\ RepeatsQname(queries[1].resp, emitted[k].data.s)

\* C13: the error state is entered only by a handleEvent call that finds the
\* API key empty: errorState implies an empty key, it becomes true only in
\* the step in which a call leaves at the key test, and no request, mapping,
\* gate or emit step changes it.
C13_ErrorOnlyByMissingKey ==
    /\ [](errorState => (apiKey = "" /\ calls >= 1))
    /\ [][errorState' # errorState =>
            /\ apiKey = ""
            /\ calls' = calls + 1
            /\ guard' = "nokey"
            /\ errorState']_vars

\* C13 witness: a call is over in which a query got no usable response, a
\* response was mapped and the gate rejected a hostname for its scope; the
\* error state is not set.
C13_Witness ==
    /\ ~errorState
    /\ pc = "idle"
    /\ ~raised
    /\ \E i \in 1..Len(queries) : queries[i].resp = JNull
    /\ \E i \in 1..Len(queries) : Truthy(queries[i].resp)
    /\ \E i \in 1..Len(gateLog) :
         ~gateLog[i].ret /\ ~Matches(gateLog[i].h)

\* The non-empty response.x.owner value of a results entry, if it has one.
OwnerOf(r) ==
    IF /\ IsDict(r)
       /\ IsDict(Get(r, "response"))
       /\ IsDict(Get(Get(r, "response"), "x"))
       /\ Truthy(Get(Get(Get(r, "response"), "x"), "owner"))
    THEN <<Get(Get(Get(r, "response"), "x"), "owner")>>
    ELSE <<>>

\* The non-empty owners of a WHOIS response, in the order of its entries.
Owners(body) ==
    IF IsDict(body) /\ IsList(Get(body, "results"))
    THEN Flatten([i \in 1..Len(Get(body, "results").items) |->
                    OwnerOf(Get(body, "results").items[i])])
    ELSE <<>>

\* The values of the EMAILADDR events emitted while a response was mapped.
EmailsAt(path) ==
    LET es == SelectSeq(emitted, LAMBDA e :
                          e.etype = "EMAILADDR" /\ e.path = path)
    IN  [k \in 1..Len(es) |-> es[k].data]

\* C14 (as claimed): once handleEvent is done with a non-null /domain2whois
\* response of a DOMAIN_NAME event, and no emit was dropped for the stop
\* flag, the EMAILADDR events are exactly the non-empty owners of the results
\* entries, one per entry, and each follows the RAW_RIR_DATA event that
\* carries the response.
C14_OwnersEmitted ==
    \A i \in 1..Len(queries) :
      (/\ event.etype = "DOMAIN_NAME"
       /\ queries[i].path = "/domain2whois"
       /\ queries[i].resp # JNull
       /\ (pc = "idle" \/ cur # "/domain2whois")
       /\ ~suppressed)
      => /\ EmailsAt("/domain2whois") = Owners(queries[i].resp)
         /\ \A k \in 1..Len(emitted) :
              (emitted[k].etype = "EMAILADDR"
               /\ emitted[k].path = "/domain2whois")
              => \E j \in 1..(k - 1) :
                   /\ emitted[j].etype = "RAW_RIR_DATA"
                   /\ emitted[j].path = "/domain2whois"
                   /\ emitted[j].data = JStr(Dumps(queries[i].resp))

\* The ten endpoints of the claim, in the claimed order.
DomainPaths ==
    << "/subdomains", "/email_domain", "/ns2domain", "/domain2ip",
       "/domain2aaaa", "/domain2mx", "/domain2cname", "/domain2whois",
       "/domain2d8s", "/domain2nsglue" >>

\* The queries of a DOMAIN_NAME call so far are the first of the ten, in
\* order, each once and each for the value of the event.
InDomainOrder ==
    /\ Len(queries) <= Len(DomainPaths)
    /\ \A i \in 1..Len(queries) :
         queries[i].path = DomainPaths[i] /\ queries[i].q = event.data

\* C15 (as claimed): a DOMAIN_NAME call that passes the guards issues its
\* queries in the order of the ten endpoints, each once, and when the call is
\* over all ten have been issued, whatever the responses were.
C15_TenQueriesInOrder ==
    (event.etype = "DOMAIN_NAME" /\ guard = "pass") =>
      /\ InDomainOrder
      /\ pc = "idle" => Len(queries) = Len(DomainPaths)

\* C16: the DedupCache changes only in the step in which handleEvent passes
\* its guards, and then by exactly the key of the event of that call, which
\* was absent; a call that returns at a guard leaves it unchanged; no key is
\* ever removed; every request is issued with the key of the call already
\* recorded; no request, gate, emit or other step of the call changes it.
C16_CacheFrame ==
    /\ [](queries # <<>> => Key(event.etype, event.data) \in results)
    /\ [][/\ results \subseteq results'
          /\ results' # results =>
               /\ calls' = calls + 1
               /\ guard' = "pass"
               /\ queries' = <<>>
               /\ Key(event'.etype, event'.data) \notin results
               /\ results' = results \cup {Key(event'.etype, event'.data)}
          /\ calls' # calls =>
               IF guard' = "pass"
               THEN results' # results
               ELSE results' = results]_vars

\* C16 witness: two calls passed the guards and recorded their keys, and in
\* the second the gate admitted a hostname whose event the listeners
\* received; the cache holds the two keys and nothing else.
C16_Witness ==
    /\ calls = 2
    /\ results = {Key(e.etype, e.data) : e \in {event} \cup
                    {[etype |-> x.etype, data |-> x.data] : x \in queriedBy}}
    /\ Cardinality(results) = 2
    /\ \E i \in 1..Len(gateLog) : gateLog[i].ret
    /\ \E k \in 1..Len(emitted) : emitted[k].via = "gate"

\* The event types the gate emits.
GateTypes == {"INTERNET_NAME", "INTERNET_NAME_UNRESOLVED", "DOMAIN_NAME"}

\* C17: a hostname whose INTERNET_NAME key is in the DedupCache gets no emit
\* from the gate, and no INTERNET_NAME, INTERNET_NAME_UNRESOLVED or
\* DOMAIN_NAME event for it reaches the listeners through the gate, whatever
\* the response that carried it.
C17_SeenNeverReemitted ==
    /\ \A i \in 1..Len(gateLog) :
         Key("INTERNET_NAME", Fmt(gateLog[i].h)) \in results
         => (~gateLog[i].ret /\ gateLog[i].emits = <<>>)
    /\ \A k \in 1..Len(emitted) :
         emitted[k].via = "gate" =>
           /\ emitted[k].etype \in GateTypes
           /\ Key("INTERNET_NAME", Fmt(emitted[k].data)) \notin results

\* C17 witness: an INTERNET_NAME event was accepted in an earlier call; in a
\* later call a /subdomains response carried its hostname, the gate was
\* called for it and emitted nothing, while it admitted another hostname of
\* the same response.
C17_Witness ==
    /\ event.etype = "DOMAIN_NAME"
    /\ guard = "pass"
    /\ pc = "idle"
    /\ \E x \in queriedBy : x.etype = "INTERNET_NAME" /\ x.call < calls
    /\ \E i \in 1..Len(gateLog) :
         /\ Key("INTERNET_NAME", Fmt(gateLog[i].h)) \in results
         /\ Matches(gateLog[i].h)
         /\ ~gateLog[i].ret
    /\ \E i \in 1..Len(gateLog) : gateLog[i].ret
    /\ \E k \in 1..Len(emitted) : emitted[k].via = "gate"

\* C18 (as claimed): no handleEvent call emits two RAW_RIR_DATA events that
\* carry the response of the same query.
C18_RawAtMostOnce ==
    \A i, j \in 1..Len(emitted) :
      (/\ emitted[i].etype = "RAW_RIR_DATA"
       /\ emitted[j].etype = "RAW_RIR_DATA"
       /\ emitted[i].path = emitted[j].path
       /\ emitted[i].data = emitted[j].data) => i = j

\* C19 (as claimed): every event the listeners receive has a type that
\* producedEvents declares.
C19_OnlyDeclaredTypes ==
    \A k \in 1..Len(emitted) : emitted[k].etype \in producedEvents

====
